---------------------------- MODULE Spec2Model ----------------------------
(***************************************************************************)
(* A model of trigrams.py: the trigram tokenizer, the retrying statement   *)
(* executor run_statement, the indexer index_string, the /search handler   *)
(* do_search and the /cdc handler cdc_webhook, over the table teams.       *)
(*                                                                         *)
(* Text is a sequence of one-character strings.  Durations are counted in  *)
(* units of 0.0001 s, so that every delay the code computes is an integer. *)
(***************************************************************************)
EXTENDS Integers, Sequences, FiniteSets, TLC

(***************************************************************************)
(* Bounds of the model.                                                    *)
(***************************************************************************)
NumThreads == 2     \* worker threads of the Flask server (threaded=True)
NumIds     == 2     \* primary keys that occur in events and in the table
MaxPayload == 2     \* elements of one /cdc payload
MaxText    == 4     \* characters of a text given to the tokenizer
MaxLimit   == 2     \* the <int:limit> of a /search request

(***************************************************************************)
(* Program constants.                                                      *)
(***************************************************************************)
max_retries == 4        \* MAX_RETRIES, default "4"
NgramSize   == 3        \* get_ngrams(s, n=3)
FixedSleep  == 50000    \* time.sleep(5)
aost_seconds == 10      \* AOST_SECONDS, default "10"

Threads == 1..NumThreads
Ids     == 1..NumIds

(***************************************************************************)
(* The characters of the model: lower and upper case letters, and three    *)
(* characters that the pattern [\W_] matches.                              *)
(***************************************************************************)
Alphabet == {"a", "b", "A", "B", "-", "_", " "}

\* str.lower(), one character
LowerChar(c) == IF c = "A" THEN "a" ELSE IF c = "B" THEN "b" ELSE c

\* str.lower()
Lower(s) == [i \in 1..Len(s) |-> LowerChar(s[i])]

\* the character class [\W_]
NonWord(c) == c \in {"-", "_", " "}

RECURSIVE SkipNonWord(_)
\* the rest of s after its leading run of [\W_] characters
SkipNonWord(s) ==
  IF s # <<>> /\ NonWord(Head(s)) THEN SkipNonWord(Tail(s)) ELSE s

\* faulty variant: every [\W_] character becomes a space of its own
ReSub_EachChar(s) == [i \in 1..Len(s) |-> IF NonWord(s[i]) THEN " " ELSE s[i]]

RECURSIVE ReSub(_)
\* re.sub(r"[\W_]+", " ", s): every maximal run becomes one space
ReSub(s) ==
  IF s = <<>> THEN <<>>
  ELSE IF NonWord(Head(s)) THEN <<" ">> \o ReSub(SkipNonWord(s))
  ELSE <<Head(s)>> \o ReSub(Tail(s))

\* faulty variant: range(len(s) - n), the last window is left out
WindowStarts_MissLast(s, n) == 1..(Len(s) - n)

\* range(len(s) - n + 1)), as the 1-based start offsets of the windows
WindowStarts(s, n) == 1..(Len(s) - n + 1)

\* get_ngrams: list(set(...)) is a duplicate-free list in arbitrary order,
\* modelled as the set of its elements
get_ngrams(s, n) == {SubSeq(s, i, i + n - 1) : i \in WindowStarts(s, n)}

\* tokenize(s)
tokenize(s) == get_ngrams(ReSub(Lower(s)), NgramSize)

RECURSIVE LStrip(_)
LStrip(s) == IF s # <<>> /\ Head(s) = " " THEN LStrip(Tail(s)) ELSE s

RECURSIVE RStrip(_)
RStrip(s) ==
  IF s # <<>> /\ s[Len(s)] = " " THEN RStrip(SubSeq(s, 1, Len(s) - 1)) ELSE s

\* decode(b64): the request carries the text the base64 value encodes;
\* decode strips the white space at both ends of it
decode(s) == RStrip(LStrip(s))

(***************************************************************************)
(* The texts that events and queries carry:                                *)
(*   "A-"      normalizes to "a "     (shorter than a trigram)             *)
(*   "aaaa"    normalizes to "aaaa"   (one trigram, at two offsets)        *)
(*   "aaA_-b"  normalizes to "aaa b"  (three trigrams, one shared)         *)
(*   " aaaa "  a query padded with white space                             *)
(***************************************************************************)
Names == { <<"A", "-">>,
           <<"a", "a", "a", "a">>,
           <<"a", "a", "A", "_", "-", "b">> }

Queries == Names \cup { <<" ", "a", "a", "a", "a", " ">> }

Limits == 0..MaxLimit

(***************************************************************************)
(* A row of teams: absent, or present with grams NULL or an array.         *)
(***************************************************************************)
NoRow       == [present |-> FALSE, isnull |-> TRUE,  grams |-> {}]
NullGrams   == [present |-> TRUE,  isnull |-> TRUE,  grams |-> {}]
Stored(g)   == [present |-> TRUE,  isnull |-> FALSE, grams |-> g]

(***************************************************************************)
(* A /cdc payload element: after is null, or carries id and name.          *)
(***************************************************************************)
Tombstone      == [after |-> FALSE, id |-> 0, name |-> <<>>]
After(id, nm)  == [after |-> TRUE,  id |-> id, name |-> nm]
Elements       == {Tombstone} \cup {After(id, nm) : id \in Ids, nm \in Names}

RECURSIVE SeqsUpTo(_, _)
\* the sequences over S of length at most n
SeqsUpTo(S, n) ==
  IF n = 0 THEN {<<>>}
  ELSE LET shorter == SeqsUpTo(S, n - 1)
       IN  shorter \cup {Append(s, e) : s \in {x \in shorter : Len(x) = n - 1}, e \in S}

Payloads == SeqsUpTo(Elements, MaxPayload)


(***************************************************************************)
(* State.                                                                  *)
(***************************************************************************)
VARIABLES
  teams,      \* the table: teams[id] is the row of primary key id
  pc,         \* pc[t]: where thread t stands in its request handler
  request,    \* request[t]: the HTTP request thread t is handling
  idx,        \* idx[t]: the position of cdc_webhook's loop in the payload
  stmt,       \* stmt[t]: the statement and mode run_statement was called with
  retry,      \* retry[t]: run_statement's loop variable
  sleep_s,    \* sleep_s[t]: the delay the except clause is about to sleep
  rv,         \* rv[t]: what run_statement returned to its caller
  response,   \* response[t]: the HTTP response of the request
  conn,       \* conn[t]: the transaction open on the connection of thread t
  calls,      \* history: the index_string invocations of the current request
  hist        \* history: attempts and sleeps of the current run_statement call

vars == <<teams, pc, request, idx, stmt, retry, sleep_s, rv, conn, response, calls,
          hist>>

(***************************************************************************)
(* Values of the per-thread variables.                                     *)
(***************************************************************************)
NoRequest      == [kind |-> "none",   payload |-> <<>>, q |-> <<>>, limit |-> 0]
CdcRequest(p)  == [kind |-> "cdc",    payload |-> p,    q |-> <<>>, limit |-> 0]
SearchRequest(q, k) ==
                  [kind |-> "search", payload |-> <<>>, q |-> q,    limit |-> k]

NoStmt         == [mode |-> "none",  pk |-> 0,  grams |-> {}, max_rows |-> 0]
\* text("UPDATE teams SET grams = :grams WHERE id = :pk"), run with the defaults
\* has_result=False, use_aost=False
UpdateStmt(pk, ng) ==
                  [mode |-> "write", pk |-> pk, grams |-> ng, max_rows |-> 0]
\* the similarity query of do_search, run with has_result=True, use_aost=False
SelectStmt(ng, k) ==
                  [mode |-> "read",  pk |-> 0,  grams |-> ng, max_rows |-> k]

\* the similarity query run with has_result=True, use_aost=True
AostStmt(ng, k) ==
                  [mode |-> "aost",  pk |-> 0,  grams |-> ng, max_rows |-> k]

\* the transaction of a connection: none (the connection is in the pool), or
\* open and reading as_of seconds from now: 0 until a SET TRANSACTION AS OF
\* SYSTEM TIME moves it into the past
NoConn         == [open |-> FALSE, as_of |-> 0]
Begun          == [open |-> TRUE,  as_of |-> 0]
AsOf(dt)       == [open |-> TRUE,  as_of |-> dt]

\* the value of run_statement: None, or the list result.all()
None           == [none |-> TRUE,  rows |-> <<>>]
Rows(r)        == [none |-> FALSE, rows |-> r]

NoResponse     == [status |-> 0,   text |-> "",   rows |-> <<>>]
\* return "OK", 200
OkResponse     == [status |-> 200, text |-> "OK", rows |-> <<>>]
\* Response(json.dumps(rv), status=200, mimetype="application/json")
JsonResponse(r) == [status |-> 200, text |-> "json", rows |-> r]
\* an exception that leaves the view function: Flask answers 500
ErrorResponse  == [status |-> 500, text |-> "Internal Server Error", rows |-> <<>>]

\* history of one run_statement call: the attempts made, the sleeps done and
\* the kinds of outcome the attempts had
NoHist         == [attempts |-> 0, sleeps |-> 0, seen |-> {}]

(***************************************************************************)
(* The similarity query of do_search, on the current table.                *)
(***************************************************************************)
\* faulty variant: every row that holds an array is a candidate
Overlaps_AnyArray(row, ngrams) == row.present /\ ~row.isnull

\* grams && CAST(:ngrams AS TEXT[]): NULL and empty arrays overlap nothing
Overlaps(row, ngrams) ==
  row.present /\ ~row.isnull /\ row.grams \cap ngrams # {}

\* ARRAY_LENGTH(a, 1) of an array without duplicates
ARRAY_LENGTH(a) == Cardinality(a)

ABS(x) == IF x < 0 THEN -x ELSE x

\* the CTE qbool: id and delta of every row whose grams overlap the query
qbool(ngrams) == {id \in Ids : Overlaps(teams[id], ngrams)}

\* faulty variant: the difference of the lengths is counted from 2
delta_FromTwo(id, ngrams) ==
  2 + (IF Cardinality(teams[id].grams) < Cardinality(ngrams)
         THEN Cardinality(ngrams) - Cardinality(teams[id].grams)
         ELSE Cardinality(teams[id].grams) - Cardinality(ngrams))

\* 1 + ABS(ARRAY_LENGTH(grams, 1) - ARRAY_LENGTH(CAST(:ngrams AS TEXT[]), 1))
delta(id, ngrams) ==
  1 + ABS(ARRAY_LENGTH(teams[id].grams) - ARRAY_LENGTH(ngrams))

\* the CTE qscore: SELECT id, UNNEST(grams) INTERSECT SELECT id, UNNEST(:ngrams),
\* counted per id
qscoreN(id, ngrams) ==
  LET unnestGrams  == UNION {{<<i, g>> : g \in teams[i].grams} : i \in qbool(ngrams)}
      unnestQuery  == {<<i, g>> : i \in qbool(ngrams), g \in ngrams}
  IN  Cardinality({p \in unnestGrams \cap unnestQuery : p[1] = id})

\* a row of the join: score is 100*n/delta, a DECIMAL quotient in CockroachDB,
\* kept as the pair (n, delta)
JoinRow(id, ngrams) ==
  [pk |-> id, n |-> qscoreN(id, ngrams), delta |-> delta(id, ngrams)]

\* score(a) >= score(b), for 100*a.n/a.delta and 100*b.n/b.delta
ScoreGE(a, b) == 100 * a.n * b.delta >= 100 * b.n * a.delta

\* faulty variant: ORDER BY score, ascending
OrderedDesc_Ascending(s) == \A i \in 1..(Len(s) - 1) : ScoreGE(s[i + 1], s[i])

\* ORDER BY score DESC: adjacent rows are in non-increasing score order
OrderedDesc(s) == \A i \in 1..(Len(s) - 1) : ScoreGE(s[i], s[i + 1])

Min(a, b) == IF a < b THEN a ELSE b

\* LIMIT :max_rows
Limit(s, k) == SubSeq(s, 1, Min(k, Len(s)))

\* the result sets the query may return: the joined rows in any order that
\* ORDER BY allows (ties are in no fixed order), cut by LIMIT
QueryResults(ngrams, max_rows) ==
  LET joined == {JoinRow(id, ngrams) : id \in qbool(ngrams)}
      k      == Cardinality(joined)
      perms  == {s \in [1..k -> joined] : \A i, j \in 1..k : i # j => s[i] # s[j]}
  IN  {Limit(s, max_rows) : s \in {p \in perms : OrderedDesc(p)}}

\* the body of do_search's loop, for one row: the score is row[2]/len(ng),
\* printed with four decimals; kept as ten-thousandths, rounded to nearest
FormatScore(row, ng) ==
  LET num == 100 * row.n * 10000
      den == row.delta * Cardinality(ng)
  IN  (2 * num + den) \div (2 * den)

ResultList(rows, ng) ==
  [i \in 1..Len(rows) |-> [pk |-> rows[i].pk, score |-> FormatScore(rows[i], ng)]]

(***************************************************************************)
(* Initial state: the server is up, no request is being handled; the rows  *)
(* of teams were inserted upstream and have not been indexed.              *)
(***************************************************************************)
Init ==
  /\ teams    \in [Ids -> {NoRow, NullGrams}]
  /\ pc       = [t \in Threads |-> "idle"]
  /\ request  = [t \in Threads |-> NoRequest]
  /\ idx      = [t \in Threads |-> 0]
  /\ stmt     = [t \in Threads |-> NoStmt]
  /\ retry    = [t \in Threads |-> 0]
  /\ sleep_s  = [t \in Threads |-> 0]
  /\ rv       = [t \in Threads |-> None]
  /\ conn     = [t \in Threads |-> NoConn]
  /\ response = [t \in Threads |-> NoResponse]
  /\ calls    = [t \in Threads |-> <<>>]
  /\ hist     = [t \in Threads |-> NoHist]

(***************************************************************************)
(* run_statement.  The actions below say what the program does to its own  *)
(* state; the history hist is added to them further down.                  *)
(*                                                                         *)
(* pc[t] inside run_statement:                                             *)
(*   "attempt"               at the top of the try block (line 84)         *)
(*   "aost_begin"            inside with engine.begin()  (line 87)         *)
(*   "aost_execute"          before conn.execute(stmt)   (line 89)         *)
(*   "except_serialization"  before time.sleep(sleep_s)  (line 106)        *)
(*   "except_operational"    before time.sleep(5)        (line 109)        *)
(*   "except_psycopg2"       before time.sleep(5)        (line 116)        *)
(*   "return"                at return rv                (line 98)         *)
(*   "end"                   past the loop: the function ends, giving None *)
(***************************************************************************)
\* the positions inside the try block, where an exception may be raised: its
\* top, and the two statements of the use_aost branch.  An exception leaves the
\* with block, which rolls the transaction back and releases the connection.
TryBlock == {"attempt", "aost_begin", "aost_execute"}

\* faulty variant: range(1, max_retries + 2), one attempt too many
RetryRange_OneMore == 1..(max_retries + 1)

\* for retry in range(1, max_retries + 1)
RetryRange == 1..max_retries

\* faulty variant: the exponent counts the attempts from 0
BackoffDelay_FromZero(attempt, r) == (2 ^ (attempt - 1)) * (r + 500)

\* sleep_s = (2 ** retry) * 0.1 * (random.random() + 0.5), for random.random()
\* = r/1000
BackoffDelay(attempt, r) == (2 ^ attempt) * (r + 500)

\* values of random.random(), in thousandths: both ends of [0, 1)
RandomValues == {0, 999}

\* the call run_statement(s, ...) by thread t: the loop starts at retry = 1
CallRunStatement(t, s) ==
  /\ stmt'    = [stmt EXCEPT ![t] = s]
  /\ retry'   = [retry EXCEPT ![t] = 1]
  /\ rv'      = [rv EXCEPT ![t] = None]
  /\ sleep_s' = [sleep_s EXCEPT ![t] = 0]
  /\ pc'      = [pc EXCEPT ![t] = "attempt"]

\* faulty variant: past the loop the function returns an empty list
LoopNext_EmptyList(t) ==
  IF retry[t] + 1 \in 1..max_retries
    THEN /\ retry' = [retry EXCEPT ![t] = @ + 1]
         /\ pc'    = [pc EXCEPT ![t] = "attempt"]
         /\ rv'    = rv
    ELSE /\ retry' = retry
         /\ pc'    = [pc EXCEPT ![t] = "end"]
         /\ rv'    = [rv EXCEPT ![t] = Rows(<<>>)]

\* the end of an except clause: the for loop goes on with the next value of
\* retry, or is exhausted and the function ends without a return statement
LoopNext(t) ==
  IF retry[t] + 1 \in RetryRange
    THEN /\ retry' = [retry EXCEPT ![t] = @ + 1]
         /\ pc'    = [pc EXCEPT ![t] = "attempt"]
         /\ rv'    = rv
    ELSE /\ retry' = retry
         /\ pc'    = [pc EXCEPT ![t] = "end"]
         /\ rv'    = [rv EXCEPT ![t] = None]

\* faulty variant: an UPDATE without its WHERE clause
Update_NoWhere(pk, ng) ==
  [id \in Ids |-> IF teams[id].present THEN Stored(ng) ELSE teams[id]]

\* faulty variant: the new trigrams are merged into the stored ones
Update_Merge(pk, ng) ==
  IF teams[pk].present
    THEN [teams EXCEPT ![pk] = Stored(teams[pk].grams \cup ng)]
    ELSE teams

\* UPDATE teams SET grams = :grams WHERE id = :pk
Update(pk, ng) ==
  IF teams[pk].present THEN [teams EXCEPT ![pk] = Stored(ng)] ELSE teams

\* the else branch of the try block commits: with engine.begin(); return rv
AttemptWrite(t) ==
  /\ pc[t] = "attempt"
  /\ stmt[t].mode = "write"
  /\ teams' = Update(stmt[t].pk, stmt[t].grams)
  /\ rv'    = [rv EXCEPT ![t] = None]
  /\ pc'    = [pc EXCEPT ![t] = "return"]
  /\ UNCHANGED <<request, idx, stmt, retry, sleep_s, response, calls, conn>>

\* the has_result branch: with engine.connect(); rv = result.all(); return rv
AttemptRead(t) ==
  /\ pc[t] = "attempt"
  /\ stmt[t].mode = "read"
  /\ \E rows \in QueryResults(stmt[t].grams, stmt[t].max_rows) :
       rv' = [rv EXCEPT ![t] = Rows(rows)]
  /\ pc'    = [pc EXCEPT ![t] = "return"]
  /\ UNCHANGED <<teams, request, idx, stmt, retry, sleep_s, response, calls, conn>>

\* faulty variant: no backoff after the last attempt of the budget
AttemptSerializationFailure_NoLastSleep(t) ==
  /\ pc[t] \in TryBlock
  /\ IF retry[t] = max_retries
       THEN /\ LoopNext(t)
            /\ sleep_s' = sleep_s
       ELSE /\ \E r \in RandomValues :
                 sleep_s' = [sleep_s EXCEPT ![t] = BackoffDelay(retry[t], r)]
            /\ pc' = [pc EXCEPT ![t] = "except_serialization"]
            /\ UNCHANGED <<retry, rv>>
  /\ conn'    = [conn EXCEPT ![t] = NoConn]
  /\ UNCHANGED <<teams, request, idx, stmt, response, calls>>

\* the use_aost branch, first step: with engine.begin() as conn opens a
\* transaction
AostBegin(t) ==
  /\ pc[t] = "attempt"
  /\ stmt[t].mode = "aost"
  /\ conn' = [conn EXCEPT ![t] = Begun]
  /\ pc'   = [pc EXCEPT ![t] = "aost_begin"]
  /\ UNCHANGED <<teams, request, idx, stmt, retry, sleep_s, rv, response, calls>>

\* faulty variant: the offset is set by the first attempt only
AostSet_FirstAttemptOnly(t) ==
  /\ pc[t] = "aost_begin"
  /\ conn' = [conn EXCEPT ![t] = IF retry[t] = 1 THEN AsOf(-aost_seconds) ELSE @]
  /\ pc'   = [pc EXCEPT ![t] = "aost_execute"]
  /\ UNCHANGED <<teams, request, idx, stmt, retry, sleep_s, rv, response, calls>>

\* conn.execute(text("SET TRANSACTION AS OF SYSTEM TIME :dt")), with dt =
\* '-' + aost_seconds + 's'
AostSet(t) ==
  /\ pc[t] = "aost_begin"
  /\ conn' = [conn EXCEPT ![t] = AsOf(-aost_seconds)]
  /\ pc'   = [pc EXCEPT ![t] = "aost_execute"]
  /\ UNCHANGED <<teams, request, idx, stmt, retry, sleep_s, rv, response, calls>>

\* result = conn.execute(stmt); rv = result.all(); the with block commits;
\* return rv.  The rows are those of the table at the time the transaction
\* reads; no step of a specification with this action changes the table, so
\* they are the rows of teams whatever that time is.
AostExecute(t) ==
  /\ pc[t] = "aost_execute"
  /\ \E rows \in QueryResults(stmt[t].grams, stmt[t].max_rows) :
       rv' = [rv EXCEPT ![t] = Rows(rows)]
  /\ conn' = [conn EXCEPT ![t] = NoConn]
  /\ pc'   = [pc EXCEPT ![t] = "return"]
  /\ UNCHANGED <<teams, request, idx, stmt, retry, sleep_s, response, calls>>

\* except OperationalError with pgcode SERIALIZATION_FAILURE: back off
AttemptSerializationFailure(t) ==
  /\ pc[t] \in TryBlock
  /\ \E r \in RandomValues :
       sleep_s' = [sleep_s EXCEPT ![t] = BackoffDelay(retry[t], r)]
  /\ pc'      = [pc EXCEPT ![t] = "except_serialization"]
  /\ conn'    = [conn EXCEPT ![t] = NoConn]
  /\ UNCHANGED <<teams, request, idx, stmt, retry, rv, response, calls>>

\* faulty variant: the statement runs on an autocommit connection, so that an
\* error reported after it leaves the row updated
AttemptOperationalError_Autocommit(t) ==
  /\ pc[t] \in TryBlock
  /\ teams'   = IF stmt[t].mode = "write"
                  THEN Update(stmt[t].pk, stmt[t].grams) ELSE teams
  /\ sleep_s' = [sleep_s EXCEPT ![t] = FixedSleep]
  /\ pc'      = [pc EXCEPT ![t] = "except_operational"]
  /\ conn'    = [conn EXCEPT ![t] = NoConn]
  /\ UNCHANGED <<request, idx, stmt, retry, rv, response, calls>>

\* except OperationalError with another pgcode: sleep 5 seconds
AttemptOperationalError(t) ==
  /\ pc[t] \in TryBlock
  /\ sleep_s' = [sleep_s EXCEPT ![t] = FixedSleep]
  /\ pc'      = [pc EXCEPT ![t] = "except_operational"]
  /\ conn'    = [conn EXCEPT ![t] = NoConn]
  /\ UNCHANGED <<teams, request, idx, stmt, retry, rv, response, calls>>

\* except (IntegrityError, UniqueViolation): logged; the clause neither sleeps
\* nor leaves the loop
AttemptIntegrityError(t) ==
  /\ pc[t] \in TryBlock
  /\ LoopNext(t)
  /\ conn'    = [conn EXCEPT ![t] = NoConn]
  /\ UNCHANGED <<teams, request, idx, stmt, sleep_s, response, calls>>

\* except psycopg2.Error: sleep 5 seconds
AttemptPsycopg2Error(t) ==
  /\ pc[t] \in TryBlock
  /\ sleep_s' = [sleep_s EXCEPT ![t] = FixedSleep]
  /\ pc'      = [pc EXCEPT ![t] = "except_psycopg2"]
  /\ conn'    = [conn EXCEPT ![t] = NoConn]
  /\ UNCHANGED <<teams, request, idx, stmt, retry, rv, response, calls>>

\* an exception that no except clause names (sqlalchemy.exc.ProgrammingError,
\* DataError, ...: SQLAlchemy raises the driver's errors wrapped in its own
\* classes) leaves run_statement, its caller and the view function
AttemptUncaught(t) ==
  /\ pc[t] \in TryBlock
  /\ pc'       = [pc EXCEPT ![t] = "done"]
  /\ response' = [response EXCEPT ![t] = ErrorResponse]
  /\ conn'    = [conn EXCEPT ![t] = NoConn]
  /\ UNCHANGED <<teams, request, idx, stmt, retry, sleep_s, rv, calls>>

\* the except clauses that end in a sleep
Sleeping == {"except_serialization", "except_operational", "except_psycopg2"}

\* time.sleep(sleep_s) or time.sleep(5), the last statement of an except
\* clause: the thread is suspended for sleep_s[t], then the loop goes on
Sleep(t) ==
  /\ pc[t] \in Sleeping
  /\ sleep_s' = [sleep_s EXCEPT ![t] = 0]
  /\ LoopNext(t)
  /\ UNCHANGED <<teams, request, idx, stmt, response, calls, conn>>

\* run_statement has handed its value to the caller: its frame is gone
EndRunStatement(t) ==
  /\ stmt'  = [stmt EXCEPT ![t] = NoStmt]
  /\ retry' = [retry EXCEPT ![t] = 0]
  /\ rv'    = [rv EXCEPT ![t] = None]

\* run_statement is over, by return rv or by the end of the function
Returned(t) == pc[t] \in {"return", "end"}

(***************************************************************************)
(* index_string and cdc_webhook.                                           *)
(***************************************************************************)
\* index_string(pk, content): tokenize, build the UPDATE, call run_statement
index_string(t, pk, content) ==
  /\ calls' = [calls EXCEPT ![t] = Append(@, <<pk, content>>)]
  /\ CallRunStatement(t, UpdateStmt(pk, tokenize(content)))

\* a POST or GET of /cdc arrives: obj = request.get_json(force=True)
ReceiveCdc(t, p) ==
  /\ pc[t] = "idle"
  /\ request' = [request EXCEPT ![t] = CdcRequest(p)]
  /\ idx'     = [idx EXCEPT ![t] = 1]
  /\ pc'      = [pc EXCEPT ![t] = "cdc"]
  /\ UNCHANGED <<teams, stmt, retry, sleep_s, rv, response, calls, conn>>

\* faulty variant: no test for None, o["after"]["id"] raises TypeError
CdcSkip_NoNoneTest(t) ==
  /\ pc[t] = "cdc"
  /\ idx[t] <= Len(request[t].payload)
  /\ ~request[t].payload[idx[t]].after
  /\ pc'       = [pc EXCEPT ![t] = "done"]
  /\ response' = [response EXCEPT ![t] = ErrorResponse]
  /\ UNCHANGED <<teams, request, idx, stmt, retry, sleep_s, rv, calls, conn>>

\* for o in obj["payload"]: if o["after"] is None: pass
CdcSkip(t) ==
  /\ pc[t] = "cdc"
  /\ idx[t] <= Len(request[t].payload)
  /\ ~request[t].payload[idx[t]].after
  /\ idx' = [idx EXCEPT ![t] = @ + 1]
  /\ UNCHANGED <<teams, pc, request, stmt, retry, sleep_s, rv, response, calls, conn>>

\* else: index_string(o["after"]["id"], o["after"]["name"])
CdcIndex(t) ==
  /\ pc[t] = "cdc"
  /\ idx[t] <= Len(request[t].payload)
  /\ request[t].payload[idx[t]].after
  /\ index_string(t, request[t].payload[idx[t]].id, request[t].payload[idx[t]].name)
  /\ UNCHANGED <<teams, request, idx, response, conn>>

\* run_statement returns to index_string, which drops the value and returns to
\* the loop
IndexReturn(t) ==
  /\ Returned(t)
  /\ request[t].kind = "cdc"
  /\ idx' = [idx EXCEPT ![t] = @ + 1]
  /\ pc'  = [pc EXCEPT ![t] = "cdc"]
  /\ EndRunStatement(t)
  /\ UNCHANGED <<teams, request, sleep_s, response, calls, conn>>

\* the loop is over: return "OK", 200
CdcRespond(t) ==
  /\ pc[t] = "cdc"
  /\ idx[t] > Len(request[t].payload)
  /\ response' = [response EXCEPT ![t] = OkResponse]
  /\ pc'       = [pc EXCEPT ![t] = "done"]
  /\ UNCHANGED <<teams, request, idx, stmt, retry, sleep_s, rv, calls, conn>>

(***************************************************************************)
(* do_search.                                                              *)
(***************************************************************************)
\* a GET of /search/<q_base_64>/<int:limit> arrives: decode, tokenize, build
\* the query, call run_statement(stmt, True, False)
ReceiveSearch(t, q, k) ==
  /\ pc[t] = "idle"
  /\ request' = [request EXCEPT ![t] = SearchRequest(q, k)]
  /\ CallRunStatement(t, SelectStmt(tokenize(decode(q)), k))
  /\ UNCHANGED <<teams, idx, response, calls, conn>>

\* faulty variant: 100/len(ng) is computed ahead of the loop, which raises
\* ZeroDivisionError for a query without trigrams
SearchResponse_DividesFirst(t) ==
  IF rv[t].none \/ stmt[t].grams = {} THEN ErrorResponse
  ELSE JsonResponse(ResultList(rv[t].rows, stmt[t].grams))

\* for row in run_statement(...): iterating None raises TypeError, which leaves
\* the view function; a list is turned into the JSON response
SearchResponse(t) ==
  IF rv[t].none THEN ErrorResponse
  ELSE JsonResponse(ResultList(rv[t].rows, stmt[t].grams))

SearchRespond(t) ==
  /\ Returned(t)
  /\ request[t].kind = "search"
  /\ response' = [response EXCEPT ![t] = SearchResponse(t)]
  /\ pc'       = [pc EXCEPT ![t] = "done"]
  /\ EndRunStatement(t)
  /\ UNCHANGED <<teams, request, idx, sleep_s, calls, conn>>

(***************************************************************************)
(* The response is sent and the thread is free for the next request.       *)
(***************************************************************************)
Close(t) ==
  /\ pc[t] = "done"
  /\ pc'       = [pc EXCEPT ![t] = "idle"]
  /\ request'  = [request EXCEPT ![t] = NoRequest]
  /\ idx'      = [idx EXCEPT ![t] = 0]
  /\ stmt'     = [stmt EXCEPT ![t] = NoStmt]
  /\ retry'    = [retry EXCEPT ![t] = 0]
  /\ sleep_s'  = [sleep_s EXCEPT ![t] = 0]
  /\ rv'       = [rv EXCEPT ![t] = None]
  /\ response' = [response EXCEPT ![t] = NoResponse]
  /\ calls'    = [calls EXCEPT ![t] = <<>>]
  /\ UNCHANGED <<teams, conn>>

(***************************************************************************)
(* Spec: the requests arrive one after the other and are handled by the    *)
(* first thread.  The history of run_statement is not kept.                *)
(***************************************************************************)
FirstThread == {t \in Threads : \A u \in Threads : t <= u}

Receive(t) ==
  \/ \E p \in Payloads : ReceiveCdc(t, p) /\ UNCHANGED hist
  \/ \E q \in Queries, k \in Limits : ReceiveSearch(t, q, k) /\ UNCHANGED hist

Handle(t) ==
  \/ CdcSkip(t) /\ UNCHANGED hist
  \/ CdcIndex(t) /\ UNCHANGED hist
  \/ IndexReturn(t) /\ UNCHANGED hist
  \/ CdcRespond(t) /\ UNCHANGED hist
  \/ AttemptWrite(t) /\ UNCHANGED hist
  \/ AttemptRead(t) /\ UNCHANGED hist
  \/ AttemptSerializationFailure(t) /\ UNCHANGED hist
  \/ AttemptOperationalError(t) /\ UNCHANGED hist
  \/ AttemptIntegrityError(t) /\ UNCHANGED hist
  \/ AttemptPsycopg2Error(t) /\ UNCHANGED hist
  \/ AttemptUncaught(t) /\ UNCHANGED hist
  \/ Sleep(t) /\ UNCHANGED hist
  \/ SearchRespond(t) /\ UNCHANGED hist
  \/ Close(t) /\ UNCHANGED hist

Next == \E t \in FirstThread : Receive(t) \/ Handle(t)

Spec == Init /\ [][Next]_vars

(***************************************************************************)
(* SpecExec: one call of run_statement per request (a /cdc payload of at   *)
(* most one element, or a /search), with the history of the call:          *)
(* hist[t].attempts counts the executions of the try block, hist[t].sleeps *)
(* the sleeps, hist[t].seen holds the kinds of outcome the attempts had.   *)
(* The history starts with the call and is dropped when the caller has the *)
(* call's value; a call that an exception ended keeps it to the response.  *)
(***************************************************************************)
Attempted(t, o) ==
  hist' = [hist EXCEPT ![t].attempts = @ + 1, ![t].seen = @ \cup {o}]

Slept(t) == hist' = [hist EXCEPT ![t].sleeps = @ + 1]

Forget(t) == hist' = [hist EXCEPT ![t] = NoHist]

SinglePayloads == {p \in Payloads : Len(p) <= 1}

ReceiveExec(t) ==
  \/ \E p \in SinglePayloads : ReceiveCdc(t, p) /\ UNCHANGED hist
  \/ \E q \in Queries, k \in Limits : ReceiveSearch(t, q, k) /\ Forget(t)

HandleExec(t) ==
  \/ CdcSkip(t) /\ UNCHANGED hist
  \/ CdcIndex(t) /\ Forget(t)
  \/ IndexReturn(t) /\ Forget(t)
  \/ CdcRespond(t) /\ UNCHANGED hist
  \/ AttemptWrite(t) /\ Attempted(t, "ok")
  \/ AttemptRead(t) /\ Attempted(t, "ok")
  \/ AttemptSerializationFailure(t) /\ Attempted(t, "serialization")
  \/ AttemptOperationalError(t) /\ Attempted(t, "operational")
  \/ AttemptIntegrityError(t) /\ Attempted(t, "integrity")
  \/ AttemptPsycopg2Error(t) /\ Attempted(t, "psycopg2")
  \/ AttemptUncaught(t) /\ Attempted(t, "uncaught")
  \/ Sleep(t) /\ Slept(t)
  \/ SearchRespond(t) /\ Forget(t)
  \/ Close(t) /\ Forget(t)

NextExec == \E t \in FirstThread : ReceiveExec(t) \/ HandleExec(t)

SpecExec == Init /\ [][NextExec]_vars

(***************************************************************************)
(* SpecSearch: /search requests alone, on any content of teams that /cdc   *)
(* requests can have left: a row is absent, not indexed yet, or holds the  *)
(* trigrams of one of the names.                                           *)
(***************************************************************************)
IndexedRows == {NoRow, NullGrams} \cup {Stored(tokenize(nm)) : nm \in Names}

InitSearch ==
  /\ teams    \in [Ids -> IndexedRows]
  /\ pc       = [t \in Threads |-> "idle"]
  /\ request  = [t \in Threads |-> NoRequest]
  /\ idx      = [t \in Threads |-> 0]
  /\ stmt     = [t \in Threads |-> NoStmt]
  /\ retry    = [t \in Threads |-> 0]
  /\ sleep_s  = [t \in Threads |-> 0]
  /\ rv       = [t \in Threads |-> None]
  /\ conn     = [t \in Threads |-> NoConn]
  /\ response = [t \in Threads |-> NoResponse]
  /\ calls    = [t \in Threads |-> <<>>]
  /\ hist     = [t \in Threads |-> NoHist]

NextSearch ==
  \E t \in FirstThread :
    \/ \E q \in Queries, k \in Limits : ReceiveSearch(t, q, k) /\ UNCHANGED hist
    \/ AttemptRead(t) /\ UNCHANGED hist
    \/ AttemptSerializationFailure(t) /\ UNCHANGED hist
    \/ AttemptOperationalError(t) /\ UNCHANGED hist
    \/ AttemptIntegrityError(t) /\ UNCHANGED hist
    \/ AttemptPsycopg2Error(t) /\ UNCHANGED hist
    \/ AttemptUncaught(t) /\ UNCHANGED hist
    \/ Sleep(t) /\ UNCHANGED hist
    \/ SearchRespond(t) /\ UNCHANGED hist
    \/ Close(t) /\ UNCHANGED hist

SpecSearch == InitSearch /\ [][NextSearch]_vars

(***************************************************************************)
(* SpecTokenize: the tokenizer on every text of at most MaxText characters *)
(* of the alphabet.  A /cdc request brings one event with the text as its  *)
(* name; index_string tokenizes it and the UPDATE commits at once.         *)
(***************************************************************************)
Texts == SeqsUpTo(Alphabet, MaxText)

InitTokenize ==
  /\ teams    = [id \in Ids |-> NullGrams]
  /\ pc       = [t \in Threads |-> "idle"]
  /\ request  = [t \in Threads |-> NoRequest]
  /\ idx      = [t \in Threads |-> 0]
  /\ stmt     = [t \in Threads |-> NoStmt]
  /\ retry    = [t \in Threads |-> 0]
  /\ sleep_s  = [t \in Threads |-> 0]
  /\ rv       = [t \in Threads |-> None]
  /\ conn     = [t \in Threads |-> NoConn]
  /\ response = [t \in Threads |-> NoResponse]
  /\ calls    = [t \in Threads |-> <<>>]
  /\ hist     = [t \in Threads |-> NoHist]

NextTokenize ==
  \E t \in FirstThread :
    \/ /\ pc[t] = "idle"
       /\ \E id \in Ids, s \in Texts : ReceiveCdc(t, <<After(id, s)>>)
       /\ UNCHANGED hist
    \/ CdcIndex(t) /\ UNCHANGED hist
    \/ AttemptWrite(t) /\ UNCHANGED hist
    \/ IndexReturn(t) /\ UNCHANGED hist
    \/ CdcRespond(t) /\ UNCHANGED hist

SpecTokenize == InitTokenize /\ [][NextTokenize]_vars

(***************************************************************************)
(* SpecAost: run_statement called with use_aost=True.  Neither handler of  *)
(* the file makes this call (do_search passes False); the caller here is   *)
(* any code that runs the similarity query as run_statement(stmt, True,    *)
(* True) and keeps the value.                                              *)
(***************************************************************************)
CallRequest(q, k) == [kind |-> "call", payload |-> <<>>, q |-> q, limit |-> k]

\* run_statement(stmt, True, True)
CallAost(t, q, k) ==
  /\ pc[t] = "idle"
  /\ request' = [request EXCEPT ![t] = CallRequest(q, k)]
  /\ CallRunStatement(t, AostStmt(tokenize(decode(q)), k))
  /\ UNCHANGED <<teams, idx, response, calls, conn>>

\* run_statement returns to that caller
CallReturn(t) ==
  /\ Returned(t)
  /\ request[t].kind = "call"
  /\ pc' = [pc EXCEPT ![t] = "done"]
  /\ UNCHANGED <<teams, request, idx, stmt, retry, sleep_s, rv, response, calls, conn>>

NextAost ==
  \E t \in FirstThread :
    \/ \E q \in Queries, k \in Limits : CallAost(t, q, k) /\ UNCHANGED hist
    \/ AostBegin(t) /\ UNCHANGED hist
    \/ AostSet(t) /\ UNCHANGED hist
    \/ AostExecute(t) /\ UNCHANGED hist
    \/ AttemptSerializationFailure(t) /\ UNCHANGED hist
    \/ AttemptOperationalError(t) /\ UNCHANGED hist
    \/ AttemptIntegrityError(t) /\ UNCHANGED hist
    \/ AttemptPsycopg2Error(t) /\ UNCHANGED hist
    \/ AttemptUncaught(t) /\ UNCHANGED hist
    \/ Sleep(t) /\ UNCHANGED hist
    \/ CallReturn(t) /\ UNCHANGED hist
    \/ Close(t) /\ UNCHANGED hist

SpecAost == InitSearch /\ [][NextAost]_vars

(***************************************************************************)
(* SpecConc: every thread of the server handles requests, in any           *)
(* interleaving of their steps (app.run(threaded=True)).  A /cdc request   *)
(* brings one event, for any id, with one of two names whose trigram sets  *)
(* are disjoint ("aaaa": {"aaa"}; "abab": {"aba", "bab"}); a /search asks  *)
(* for "aaaa".  A statement execution is one transaction of the store and  *)
(* so one step.                                                            *)
(***************************************************************************)
ConcNames == { <<"a", "a", "a", "a">>, <<"a", "b", "a", "b">> }

ConcPayloads == {<<After(id, nm)>> : id \in Ids, nm \in ConcNames}

ConcQueries == { <<"a", "a", "a", "a">> }

NextConc ==
  \E t \in Threads :
    \/ \E p \in ConcPayloads : ReceiveCdc(t, p) /\ UNCHANGED hist
    \/ \E q \in ConcQueries : ReceiveSearch(t, q, MaxLimit) /\ UNCHANGED hist
    \/ CdcIndex(t) /\ UNCHANGED hist
    \/ IndexReturn(t) /\ UNCHANGED hist
    \/ CdcRespond(t) /\ UNCHANGED hist
    \/ AttemptWrite(t) /\ UNCHANGED hist
    \/ AttemptRead(t) /\ UNCHANGED hist
    \/ AttemptSerializationFailure(t) /\ UNCHANGED hist
    \/ AttemptOperationalError(t) /\ UNCHANGED hist
    \/ AttemptIntegrityError(t) /\ UNCHANGED hist
    \/ AttemptPsycopg2Error(t) /\ UNCHANGED hist
    \/ AttemptUncaught(t) /\ UNCHANGED hist
    \/ Sleep(t) /\ UNCHANGED hist
    \/ SearchRespond(t) /\ UNCHANGED hist
    \/ Close(t) /\ UNCHANGED hist

SpecConc == Init /\ [][NextConc]_vars

(***************************************************************************)
(* Claims about run_statement, checked under SpecExec.                     *)
(***************************************************************************)

\* C1, as claimed: a call of run_statement all of whose attempts raised a
\* uniqueness violation (IntegrityError) is over after exactly one attempt,
\* without a sleep, and gives None.
C1_UniqueViolationOneAttempt ==
  \A t \in Threads :
    (Returned(t) /\ hist[t].seen = {"integrity"}) =>
      /\ hist[t].attempts = 1
      /\ hist[t].sleeps = 0
      /\ rv[t].none

\* the bounds [2^attempt * 0.05 s, 2^attempt * 0.15 s] of the delay that follows
\* the failed attempt of that number
DelayInBounds(d, attempt) ==
  (2 ^ attempt) * 500 <= d /\ d <= (2 ^ attempt) * 1500

\* C2: while a call has met nothing but serialization conflicts, the sleep
\* after failed attempt number n lasts between 2^n * 0.05 s and 2^n * 0.15 s
\* and is done before attempt n + 1 starts (as many sleeps as failed attempts
\* at the top of the try block, one fewer inside the except clause); a call
\* that then succeeds on attempt 3 has made exactly three attempts, slept
\* exactly twice, and returns the value of the third attempt: the rows of the
\* query for a read, None with the row updated for a write.
C2_BackoffThenSuccess ==
  \A t \in Threads :
    hist[t].seen \subseteq {"serialization", "ok"} =>
      /\ pc[t] = "except_serialization" =>
           /\ hist[t].attempts = retry[t]
           /\ hist[t].sleeps = retry[t] - 1
           /\ DelayInBounds(sleep_s[t], retry[t])
      /\ pc[t] = "attempt" =>
           /\ hist[t].attempts = retry[t] - 1
           /\ hist[t].sleeps = retry[t] - 1
      /\ (pc[t] = "return" /\ retry[t] = 3) =>
           /\ hist[t].attempts = 3
           /\ hist[t].sleeps = 2
           /\ hist[t].seen = {"serialization", "ok"}
           /\ stmt[t].mode = "read" =>
                /\ ~rv[t].none
                /\ rv[t].rows \in QueryResults(stmt[t].grams, stmt[t].max_rows)
           /\ stmt[t].mode = "write" =>
                /\ rv[t].none
                /\ teams[stmt[t].pk].present =>
                     teams[stmt[t].pk] = Stored(stmt[t].grams)

\* C2, witness: a search whose query met two serialization conflicts and then
\* returned a row on the third attempt
C2_Witness ==
  \E t \in Threads :
    /\ pc[t] = "return"
    /\ stmt[t].mode = "read"
    /\ hist[t] = [attempts |-> 3, sleeps |-> 2, seen |-> {"serialization", "ok"}]
    /\ rv[t].rows # <<>>

\* C3: a call of run_statement makes at most max_retries attempts, whatever
\* the outcomes: an attempt is about to be made only while fewer than
\* max_retries were made, and after a successful attempt the call is at its
\* return statement (no attempt follows).
C3_AtMostMaxRetriesAttempts ==
  \A t \in Threads :
    /\ hist[t].attempts <= max_retries
    /\ pc[t] = "attempt" => hist[t].attempts < max_retries
    /\ pc[t] \in Sleeping \cup {"attempt"} => "ok" \notin hist[t].seen
    /\ "ok" \in hist[t].seen => pc[t] = "return"
    /\ pc[t] = "end" => hist[t].attempts = max_retries

\* C3, witness: a call that used the whole budget on outcomes of every kind
\* that lets the loop go on
C3_Witness ==
  \E t \in Threads :
    /\ pc[t] = "end"
    /\ hist[t].attempts = max_retries
    /\ hist[t].seen = {"serialization", "operational", "integrity", "psycopg2"}

\* C4: a call whose max_retries attempts all failed with a serialization
\* conflict or another operational error is in the sleep of its last except
\* clause or has ended past the loop with None; it does not end by an
\* exception (which would leave the handler with the response 500).
C4_ExhaustedReturnsNone ==
  \A t \in Threads :
    (/\ hist[t].attempts = max_retries
     /\ hist[t].seen \subseteq {"serialization", "operational"}) =>
      /\ pc[t] \in {"except_serialization", "except_operational", "end"}
      /\ pc[t] = "end" => rv[t].none
      /\ response[t] = NoResponse

\* C4, witness: the budget is exhausted by conflicts and operational errors
\* and the call has ended with None
C4_Witness ==
  \E t \in Threads :
    /\ pc[t] = "end"
    /\ rv[t].none
    /\ hist[t].attempts = max_retries
    /\ hist[t].seen = {"serialization", "operational"}

(***************************************************************************)
(* Claims about the handlers, checked under Spec and SpecSearch.           *)
(***************************************************************************)

\* C5, as claimed: when run_statement gives None to do_search (the budget is
\* exhausted, or uniqueness violations were skipped), the search answers 200
\* with an empty result list.
C5_SearchToleratesNoResult ==
  [][\A t \in Threads :
       (/\ Returned(t)
        /\ request[t].kind = "search"
        /\ rv[t].none
        /\ pc'[t] = "done") => response'[t] = JsonResponse(<<>>)]_vars

\* C6, as claimed: whatever the store did during indexing, a /cdc request ends
\* with the response 200 "OK".
C6_CdcAlwaysOk ==
  \A t \in Threads :
    (request[t].kind = "cdc" /\ pc[t] = "done") => response[t] = OkResponse

\* C7: the step in which the UPDATE of an index_string call commits on an
\* existing row leaves exactly tokenize(name) of the event as the grams of the
\* event's id, whatever was stored before, and leaves every other row as it was.
C7_UpdateOverwrites ==
  [][\A t \in Threads :
       (/\ pc[t] = "attempt"
        /\ stmt[t].mode = "write"
        /\ pc'[t] = "return"
        /\ teams[request[t].payload[idx[t]].id].present) =>
         LET e == request[t].payload[idx[t]]
         IN  /\ teams'[e.id] = Stored(tokenize(e.name))
             /\ \A id \in Ids \ {e.id} : teams'[id] = teams[id]]_vars

\* C7, witness: the second event of a payload has just been indexed over the
\* larger set that the first event, with another name, asked for; the other row
\* holds a set of its own
C7_Witness ==
  \E t \in Threads :
    /\ pc[t] = "return"
    /\ stmt[t].mode = "write"
    /\ Len(calls[t]) = 2
    /\ calls[t][1][1] = calls[t][2][1]
    /\ ~(tokenize(calls[t][1][2]) \subseteq tokenize(calls[t][2][2]))
    /\ teams[calls[t][2][1]] = Stored(tokenize(calls[t][2][2]))
    /\ tokenize(calls[t][2][2]) # {}
    /\ \E id \in Ids \ {calls[t][2][1]} :
         ~teams[id].isnull /\ teams[id].grams # {}

\* the thread makes a step of its handler
Moves(t) == pc'[t] # pc[t] \/ idx'[t] # idx[t] \/ calls'[t] # calls[t]

\* the payload holds nothing but elements whose after is null
OnlyTombstones(p) == \A i \in 1..Len(p) : ~p[i].after

\* C8: the step of cdc_webhook over an element whose after is null calls
\* nothing (no index_string invocation, no statement), changes no row of
\* teams, and goes on to the next element; a request whose elements are all
\* of this kind invokes index_string zero times and ends with 200 "OK".
C8_TombstoneIgnored ==
  /\ [][\A t \in Threads :
          (/\ pc[t] = "cdc"
           /\ idx[t] <= Len(request[t].payload)
           /\ ~request[t].payload[idx[t]].after
           /\ Moves(t)) =>
            /\ calls'[t] = calls[t]
            /\ stmt'[t] = NoStmt
            /\ teams' = teams
            /\ pc'[t] = "cdc"
            /\ idx'[t] = idx[t] + 1]_vars
  /\ [](\A t \in Threads :
          (request[t].kind = "cdc" /\ OnlyTombstones(request[t].payload)) =>
            /\ calls[t] = <<>>
            /\ pc[t] \in {"cdc", "done"}
            /\ pc[t] = "done" => response[t] = OkResponse)

\* C8, witness: a request of one element with after null has been answered
\* 200 "OK" with no invocation, while a row keeps the trigrams stored earlier
C8_Witness ==
  \E t \in Threads :
    /\ pc[t] = "done"
    /\ request[t].kind = "cdc"
    /\ request[t].payload = <<Tombstone>>
    /\ calls[t] = <<>>
    /\ response[t] = OkResponse
    /\ \E id \in Ids : ~teams[id].isnull /\ teams[id].grams # {}

\* the (id, name) pairs of the elements of p whose after is not null, in order
RECURSIVE AfterImages(_)
AfterImages(p) ==
  IF p = <<>> THEN <<>>
  ELSE IF Head(p).after
         THEN <<<<Head(p).id, Head(p).name>>>> \o AfterImages(Tail(p))
         ELSE AfterImages(Tail(p))

\* C9, as claimed: the index_string invocations of a /cdc request are, in
\* order, the (id, name) of the payload elements with a non-null after: of the
\* elements before the loop's position while the loop is between two elements
\* (the statement of the previous invocation is gone), of the elements up to
\* it while an invocation runs, and of the whole payload when the request is
\* answered.
C9_IndexerOncePerElement ==
  \A t \in Threads :
    request[t].kind = "cdc" =>
      /\ pc[t] = "cdc" =>
           /\ calls[t] = AfterImages(SubSeq(request[t].payload, 1, idx[t] - 1))
           /\ stmt[t] = NoStmt
      /\ pc[t] \in Sleeping \cup {"attempt", "return", "end"} =>
           calls[t] = AfterImages(SubSeq(request[t].payload, 1, idx[t]))
      /\ pc[t] = "done" => calls[t] = AfterImages(request[t].payload)

\* the raw score 100 * |storedSet \cap Q| / (1 + |len(storedSet) - len(Q)|) of
\* the row id for the query set Q, as numerator and denominator
RawNum(id, Q) == 100 * Cardinality(teams[id].grams \cap Q)

RawDen(id, Q) ==
  LET d == Cardinality(teams[id].grams) - Cardinality(Q)
  IN  1 + (IF d < 0 THEN -d ELSE d)

\* the raw score of row a is at least that of row b
RawGE(a, b, Q) == RawNum(a, Q) * RawDen(b, Q) >= RawNum(b, Q) * RawDen(a, Q)

\* the row exists and holds a trigram set
Indexed(id) == teams[id].present /\ ~teams[id].isnull

\* the primary keys of a result list
Returned_pks(rows) == {rows[i].pk : i \in 1..Len(rows)}

\* C10: a search with a non-empty query set Q and limit k >= 1 that is
\* answered 200 lists at most k rows, of indexed records, in non-increasing
\* order of raw score, and no indexed record left out of the list has a raw
\* score greater than that of a listed one.
C10_AtMostKByDescendingScore ==
  \A t \in Threads :
    LET Q    == tokenize(decode(request[t].q))
        rows == response[t].rows
    IN  (/\ request[t].kind = "search"
         /\ pc[t] = "done"
         /\ response[t].status = 200
         /\ request[t].limit >= 1
         /\ Q # {}) =>
          /\ Len(rows) <= request[t].limit
          /\ \A i \in 1..Len(rows) : Indexed(rows[i].pk)
          /\ \A i \in 1..(Len(rows) - 1) : RawGE(rows[i].pk, rows[i + 1].pk, Q)
          /\ \A id \in Ids \ Returned_pks(rows) :
               Indexed(id) => \A i \in 1..Len(rows) : RawGE(rows[i].pk, id, Q)

\* C10, witness: two records match the query with different raw scores, the
\* limit is 1, and the answer lists one of them
C10_Witness ==
  \E t \in Threads :
    /\ request[t].kind = "search"
    /\ pc[t] = "done"
    /\ response[t].status = 200
    /\ request[t].limit = 1
    /\ Len(response[t].rows) = 1
    /\ LET Q == tokenize(decode(request[t].q))
       IN  \E a, b \in Ids :
             /\ Indexed(a) /\ teams[a].grams \cap Q # {}
             /\ Indexed(b) /\ teams[b].grams \cap Q # {}
             /\ ~RawGE(b, a, Q)

\* C11: every row that a search with a non-empty query set Q gets from the
\* store, and every record of its answer, is of a row that holds a trigram
\* set sharing at least one trigram with Q; a row whose set is empty or whose
\* grams is NULL (never indexed) is in no answer.
C11_ReturnedRowsOverlapQuery ==
  \A t \in Threads :
    request[t].kind = "search" =>
      LET Q == tokenize(decode(request[t].q))
          listed == IF pc[t] = "return" THEN Returned_pks(rv[t].rows)
                    ELSE Returned_pks(response[t].rows)
      IN  \A id \in listed :
            /\ Q # {}
            /\ Indexed(id)
            /\ teams[id].grams \cap Q # {}

\* C11, witness: an answer lists a record while another row holds an empty
\* trigram set, or none, and is not listed
C11_Witness ==
  \E t \in Threads :
    /\ request[t].kind = "search"
    /\ pc[t] = "done"
    /\ response[t].status = 200
    /\ response[t].rows # <<>>
    /\ \E id \in Ids \ Returned_pks(response[t].rows) :
         teams[id] \in {Stored({}), NullGrams}

\* C12: for every row the query gives for a non-empty query set Q, delta >= 1
\* and the raw score 100*n/delta is at most 100*|Q|, so the score of the
\* answer, raw/|Q|, is at most 100.0000; a row whose stored set equals Q has
\* delta = 1, n = |Q| and raw score 100*|Q|, and is listed with 100.0000.
C12_ExactMatchIsMaximum ==
  \A t \in Threads :
    request[t].kind = "search" =>
      LET Q == tokenize(decode(request[t].q))
      IN  /\ pc[t] = "return" =>
               \A i \in 1..Len(rv[t].rows) :
                 LET r == rv[t].rows[i]
                 IN  /\ r.delta >= 1
                     /\ 100 * r.n <= 100 * Cardinality(Q) * r.delta
                     /\ teams[r.pk].grams = Q =>
                          /\ r.delta = 1
                          /\ 100 * r.n = 100 * Cardinality(Q)
          /\ pc[t] = "done" =>
               \A i \in 1..Len(response[t].rows) :
                 LET r == response[t].rows[i]
                 IN  /\ r.score <= 100 * 10000
                     /\ teams[r.pk].grams = Q => r.score = 100 * 10000

\* C12, witness: an answer lists a record whose stored set is the query set,
\* of three trigrams, and a second record with a lower score
C12_Witness ==
  \E t \in Threads :
    /\ request[t].kind = "search"
    /\ pc[t] = "done"
    /\ Len(response[t].rows) = 2
    /\ Cardinality(tokenize(decode(request[t].q))) = 3
    /\ teams[response[t].rows[1].pk].grams = tokenize(decode(request[t].q))
    /\ response[t].rows[1].score = 100 * 10000
    /\ response[t].rows[2].score < 100 * 10000

\* no row of teams holds a trigram of the set Q
NothingMatches(Q) == \A id \in Ids : ~Overlaps(teams[id], Q)

\* C13: when the query text has no trigram, or no stored set shares a trigram
\* with the query set, a read that succeeds gives an empty list, and do_search
\* answers 200 with an empty result list.
C13_EmptyListWhenNothingMatches ==
  /\ [](\A t \in Threads :
          (/\ request[t].kind = "search"
           /\ pc[t] = "return"
           /\ \/ tokenize(decode(request[t].q)) = {}
              \/ NothingMatches(tokenize(decode(request[t].q)))) =>
            rv[t] = Rows(<<>>))
  /\ [][\A t \in Threads :
          (/\ request[t].kind = "search"
           /\ pc[t] = "return"
           /\ pc'[t] = "done"
           /\ \/ tokenize(decode(request[t].q)) = {}
              \/ NothingMatches(tokenize(decode(request[t].q)))) =>
            response'[t] = JsonResponse(<<>>)]_vars

\* C13, witness: a query text without a trigram has been answered 200 with an
\* empty list, while a row holds trigrams
C13_Witness ==
  \E t \in Threads :
    /\ request[t].kind = "search"
    /\ pc[t] = "done"
    /\ tokenize(decode(request[t].q)) = {}
    /\ request[t].limit >= 1
    /\ response[t] = JsonResponse(<<>>)
    /\ \E id \in Ids : Indexed(id) /\ teams[id].grams # {}

(***************************************************************************)
(* Claims about the tokenizer, checked under SpecTokenize.                 *)
(***************************************************************************)

\* the text of the event that thread t is indexing
IndexedText(t) == request[t].payload[idx[t]].name

\* index_string is running for thread t: the statement holds tokenize(text)
Indexing(t) == request[t].kind = "cdc" /\ stmt[t].mode = "write"

\* C14: the trigrams index_string computes for a text are exactly the
\* length-3 windows of the normalized text: the window at every offset is in
\* the set, every member is the window at some offset, a window that occurs
\* at several offsets is in the set once (at most one member per offset;
\* "aaaa" gives {"aaa"}), tokenizing the text again gives an equal set, and
\* the set is what the committed UPDATE leaves in the row.
C14_TokenizeIsTheSetOfWindows ==
  \A t \in Threads :
    Indexing(t) =>
      LET G == stmt[t].grams
          n == ReSub(Lower(IndexedText(t)))
          offsets == 1..(Len(n) - 2)
      IN  /\ \A i \in offsets : SubSeq(n, i, i + 2) \in G
          /\ \A g \in G : Len(g) = 3 /\ \E i \in offsets : g = SubSeq(n, i, i + 2)
          /\ Cardinality(G) <= Cardinality(offsets)
          /\ G = tokenize(IndexedText(t))
          /\ IndexedText(t) = <<"a", "a", "a", "a">> => G = {<<"a", "a", "a">>}
          /\ pc[t] = "return" =>
               teams[request[t].payload[idx[t]].id] = Stored(G)

\* C14, witness: a text of four characters with the same trigram at both
\* offsets has been indexed as a set of one trigram
C14_Witness ==
  \E t \in Threads :
    /\ Indexing(t)
    /\ pc[t] = "return"
    /\ Len(ReSub(Lower(IndexedText(t)))) = 4
    /\ Cardinality(teams[request[t].payload[idx[t]].id].grams) = 1

\* the length of the normalized form of s: one character for every
\* alphanumeric character and one for every maximal run of other characters
NormalizedLength(s) ==
  Cardinality({i \in 1..Len(s) : ~NonWord(s[i]) \/ i = 1 \/ ~NonWord(s[i - 1])})

\* C15: the normalized text that tokenize cuts into windows has one character
\* per alphanumeric character and one per maximal run of other characters of
\* the text; when that length is less than 3, the trigram set of the text is
\* empty, and indexing the text leaves an empty array in the row.
C15_ShortTextHasNoTrigram ==
  \A t \in Threads :
    Indexing(t) =>
      /\ Len(ReSub(Lower(IndexedText(t)))) = NormalizedLength(IndexedText(t))
      /\ NormalizedLength(IndexedText(t)) < 3 =>
           /\ stmt[t].grams = {}
           /\ tokenize(IndexedText(t)) = {}
           /\ pc[t] = "return" =>
                teams[request[t].payload[idx[t]].id] = Stored({})

\* C15, witness: a text of four characters whose normalized form has fewer
\* than three has been indexed as the empty array
C15_Witness ==
  \E t \in Threads :
    /\ Indexing(t)
    /\ pc[t] = "return"
    /\ Len(IndexedText(t)) = 4
    /\ NormalizedLength(IndexedText(t)) < 3
    /\ teams[request[t].payload[idx[t]].id] = Stored({})

(***************************************************************************)
(* Further claims about run_statement, checked under SpecExec.             *)
(***************************************************************************)

\* C16: in a call of run_statement for the UPDATE, an attempt that fails
\* (the step counts an attempt and does not reach return rv) leaves teams as
\* it was; teams changes only in the step of an attempt that reaches return
\* rv, which sets the row of the statement's pk, and nothing else, to the
\* statement's grams; and once an attempt has succeeded the call makes no
\* further attempt and does not sleep.
C16_WriteCommitsAtMostOnce ==
  [][\A t \in Threads :
       stmt[t].mode = "write" =>
         /\ (hist'[t].attempts = hist[t].attempts + 1 /\ pc'[t] # "return") =>
              teams' = teams
         /\ teams' # teams =>
              /\ pc[t] = "attempt"
              /\ pc'[t] = "return"
              /\ "ok" \notin hist[t].seen
              /\ teams' = [teams EXCEPT ![stmt[t].pk] = Stored(stmt[t].grams)]
         /\ "ok" \in hist[t].seen =>
              /\ hist'[t].attempts <= hist[t].attempts
              /\ hist'[t].sleeps <= hist[t].sleeps]_vars

\* C16, witness: the UPDATE has been committed by the fourth attempt of a
\* call, after failures of three kinds
C16_Witness ==
  \E t \in Threads :
    /\ pc[t] = "return"
    /\ stmt[t].mode = "write"
    /\ hist[t].attempts = max_retries
    /\ hist[t].seen = {"serialization", "operational", "integrity", "ok"}
    /\ stmt[t].grams # {}
    /\ teams[stmt[t].pk] = Stored(stmt[t].grams)

\* C17, as claimed: a store failure that is neither a serialization conflict
\* nor a uniqueness violation (an operational error with another code, a
\* psycopg2 error, or an error of any other class) puts the call into the
\* fixed sleep of 5 seconds, after which the loop goes on; it never leaves
\* run_statement as an exception (which would end the request with 500).
C17_OtherFailuresSleepAndRetry ==
  \A t \in Threads :
    /\ pc[t] \in {"except_operational", "except_psycopg2"} =>
         sleep_s[t] = FixedSleep
    /\ hist[t].seen \cap {"operational", "psycopg2", "uncaught"} # {} =>
         /\ response[t] # ErrorResponse
         /\ pc[t] \in Sleeping \cup {"attempt", "return", "end"}

\* the outcomes of an attempt whose except clause ends in a sleep
SleepingOutcomes == {"serialization", "operational", "psycopg2"}

\* C20: one sleep follows every attempt that fails with a serialization
\* conflict, another operational error or a psycopg2 error, the last attempt
\* of the budget included.  In a call that met no other failure: inside an
\* except clause the sleep for the attempt just failed is still to come
\* (sleeps = attempts - 1), at the top of the try block and past the loop
\* every failed attempt has had its sleep (sleeps = attempts, and both are
\* max_retries past the loop), and a successful attempt adds no sleep.  In
\* every call: the only step out of such an except clause is its sleep, a
\* sleep is made nowhere else, and the end of the loop is reached from such a
\* clause only by the sleep.
C20_OneSleepPerFailedAttempt ==
  /\ [](\A t \in Threads :
          hist[t].seen \subseteq SleepingOutcomes \cup {"ok"} =>
            /\ pc[t] \in Sleeping => hist[t].sleeps = hist[t].attempts - 1
            /\ pc[t] = "attempt" => hist[t].sleeps = hist[t].attempts
            /\ pc[t] = "return" => hist[t].sleeps = hist[t].attempts - 1
            /\ pc[t] = "end" =>
                 /\ hist[t].sleeps = hist[t].attempts
                 /\ hist[t].sleeps = max_retries
                 /\ rv[t].none)
  /\ [][\A t \in Threads :
          /\ (pc[t] \in Sleeping /\ pc'[t] # pc[t]) =>
               /\ hist'[t].sleeps = hist[t].sleeps + 1
               /\ hist'[t].attempts = hist[t].attempts
               /\ pc'[t] \in {"attempt", "end"}
          /\ hist'[t].sleeps = hist[t].sleeps + 1 => pc[t] \in Sleeping
          /\ (pc[t] = "attempt" /\ pc'[t] \in Sleeping) =>
               /\ hist'[t].attempts = hist[t].attempts + 1
               /\ hist'[t].sleeps = hist[t].sleeps]_vars

\* C20, witness: every attempt of the budget failed with an outcome of these
\* kinds, and the call has ended after max_retries sleeps
C20_Witness ==
  \E t \in Threads :
    /\ pc[t] = "end"
    /\ hist[t].seen = SleepingOutcomes
    /\ hist[t].attempts = max_retries
    /\ hist[t].sleeps = max_retries

(***************************************************************************)
(* Claim about the use_aost branch, checked under SpecAost.                *)
(***************************************************************************)

\* C18: in a call with use_aost=True every attempt, the first and every
\* retry, starts without a transaction, opens one, sets its read time to
\* aost_seconds (10 s) in the past as the first statement of that transaction
\* and only then runs the query: the step that reads rows is made in an open
\* transaction whose read time is aost_seconds in the past, never in one that
\* reads at the current time; the read time is set only in a transaction just
\* opened; and outside the with block no transaction is open, so that no
\* offset is carried from one attempt to the next.
C18_EveryAttemptReadsAsOf ==
  /\ [](\A t \in Threads :
          stmt[t].mode = "aost" =>
            /\ pc[t] = "attempt" => conn[t] = NoConn
            /\ pc[t] = "aost_begin" => conn[t] = Begun
            /\ pc[t] = "aost_execute" => conn[t] = AsOf(-aost_seconds)
            /\ pc[t] \in Sleeping \cup {"return", "end", "done"} => conn[t] = NoConn)
  /\ [][\A t \in Threads :
          stmt[t].mode = "aost" =>
            /\ (rv'[t] # rv[t] /\ ~rv'[t].none) =>
                 /\ conn[t].open
                 /\ conn[t].as_of = -aost_seconds
                 /\ conn[t].as_of < 0
            /\ (conn'[t].open /\ conn'[t].as_of # conn[t].as_of) =>
                 conn[t] = Begun
            /\ (conn'[t].open /\ ~conn[t].open) =>
                 /\ conn'[t] = Begun
                 /\ pc[t] = "attempt"]_vars

\* C18, witness: after a failed attempt, a retry has read a row in a
\* transaction of its own and the call is at return rv
C18_Witness ==
  \E t \in Threads :
    /\ stmt[t].mode = "aost"
    /\ pc[t] = "return"
    /\ retry[t] >= 2
    /\ rv[t].rows # <<>>
    /\ conn[t] = NoConn

(***************************************************************************)
(* Claim about concurrent requests, checked under SpecConc.                *)
(***************************************************************************)

\* the event that thread t is indexing
IndexedEvent(t) == request[t].payload[idx[t]]

\* C19: whatever the interleaving of the threads and the outcomes of their
\* attempts, every row of teams holds what it held at the start (no array) or
\* exactly the trigram set of one name (never the trigrams of two names
\* together); a row changes only in the step in which the UPDATE of a thread
\* handling a /cdc request commits, the row is that of the id of the event the
\* thread is indexing, its new content is exactly tokenize(name) of that
\* event, and no other row changes in the step; a step of a thread handling a
\* /search changes no row.
C19_RowHoldsOneEventsTrigrams ==
  /\ [](\A id \in Ids :
          \/ teams[id] \in {NoRow, NullGrams}
          \/ \E nm \in ConcNames : teams[id] = Stored(tokenize(nm)))
  /\ [][\A id \in Ids :
          teams'[id] # teams[id] =>
            \E t \in Threads :
              /\ request[t].kind = "cdc"
              /\ pc[t] = "attempt"
              /\ pc'[t] = "return"
              /\ IndexedEvent(t).after
              /\ IndexedEvent(t).id = id
              /\ teams' = [teams EXCEPT ![id] = Stored(tokenize(IndexedEvent(t).name))]]_vars
  /\ [][\A t \in Threads :
          (request[t].kind = "search" /\ pc'[t] # pc[t]) => teams' = teams]_vars

\* C19, witness: two threads have each committed, one of them on a retry, the
\* event of its request for the same id with different names, while the other
\* row holds trigrams too; the row holds the trigrams of one of the two names
C19_Witness ==
  \E t, u \in Threads :
    /\ request[t].kind = "cdc" /\ request[u].kind = "cdc"
    /\ pc[t] = "return" /\ pc[u] = "return"
    /\ retry[t] >= 2
    /\ IndexedEvent(t).id = IndexedEvent(u).id
    /\ IndexedEvent(t).name # IndexedEvent(u).name
    /\ teams[IndexedEvent(u).id] = Stored(tokenize(IndexedEvent(u).name))
    /\ \E id \in Ids \ {IndexedEvent(u).id} : teams[id].grams # {}

=============================================================================
